---- MODULE Spec2Model ----
(***************************************************************************)
(* One side of the streaming order book (OrderBookSide) of go_kraken.      *)
(*                                                                         *)
(* Decimal values (prices, volumes) are integers counting units of         *)
(* 10^-Scale, so 100 is 1.00 when Scale = 2.  A json.Number is a record    *)
(* [ok, val]: ok says whether its text parses as a number, val is the      *)
(* value of the text.  The string stringFixed returns is represented by    *)
(* the integer it spells once the decimal point is dropped: two strings    *)
(* formatted at one precision are equal exactly when these integers are.   *)
(***************************************************************************)
EXTENDS Integers, Sequences, FiniteSets, TLC

VARIABLES
    m,                \* OrderBookSide.m: key -> orderBookLevel
    sorted,           \* OrderBookSide.sorted
    depth,            \* OrderBookSide.depth
    pricePrecision,   \* OrderBookSide.pricePrecision
    volumePrecision,  \* OrderBookSide.volumePrecision
    isAsk,            \* OrderBookSide.isAsk
    mx,               \* OrderBookSide.mx: [w: the writer holding it, r: the readers holding it]
    pc,               \* where each goroutine stands in its call
    updates,          \* per writer: the elements of its `updates` argument read so far
    pre,              \* per writer: levels and sortedView when its applyUpdates was called
    result,           \* per writer: how its last applyUpdates ended
    arg,              \* per writer: the slice its caller passes again, when it repeats a batch
    quotes,           \* the decimal texts the feed delivers: their scale, prices, volumes
    api               \* Kraken (package rest): its secret, its client and the call in progress

vars == <<m, sorted, depth, pricePrecision, volumePrecision, isAsk, mx, pc,
          updates, pre, result, arg, quotes, api>>

config == <<depth, pricePrecision, volumePrecision, isAsk, quotes>>

\* ---------------------------------------------------------------- bounds

\* Fractional digits of the decimal texts the feed delivers.
Scale == 2
\* Largest depth an OrderBookSide is constructed with.
MaxDepth == 2
\* Largest number of elements of one `updates` slice.
MaxBatch == 3

\* Most entries of the error list of a decoded response.
MaxErrors == 1

Writers == {"w1"}
AllWriters == {"w1", "w2"}
Readers == {"r1"}
AllReaders == {"r1", "r2"}
NoOne == "none"

\* ---------------------------------------------------------------- values

RECURSIVE Pow10(_)
Pow10(n) == IF n = 0 THEN 1 ELSE 10 * Pow10(n - 1)

\* A json.Number whose text is the decimal v, and one whose text is no number.
Num(v) == [ok |-> TRUE, val |-> v]
Garbage == [ok |-> FALSE, val |-> 0]

Prices == {1 * Pow10(Scale), 2 * Pow10(Scale), 3 * Pow10(Scale)}
Volumes == {0, 5 * Pow10(Scale), 7 * Pow10(Scale)}

\* OrderBookItem: Price and Volume are json.Number.
Items ==
    {[Price |-> Num(p), Volume |-> Num(v)] : p \in quotes.prices, v \in quotes.volumes}
        \cup {[Price |-> Garbage, Volume |-> Num(5 * Pow10(Scale))],
              [Price |-> Num(1 * Pow10(Scale)), Volume |-> Garbage]}

\* ---------------------------------------------------------------- pure code

\* fmt "%.<precision>f" of a decimal.Big: the value rounded half-even to
\* `precision` fractional digits, as the integer its digits spell.
stringFixed(big, precision) ==
    IF precision >= quotes.scale
    THEN big * Pow10(precision - quotes.scale)
    ELSE LET d == Pow10(quotes.scale - precision)
             q == big \div d
             r == big % d
         IN  IF 2 * r > d \/ (2 * r = d /\ q % 2 = 1) THEN q + 1 ELSE q

\* json.Number.Float64: fails when the text is no number.
Float64Err(num) == ~num.ok
Float64(num) == num.val

\* decimal.Big.UnmarshalText: fails when the text is no number; scanning keeps
\* every digit of the text (Context.Precision governs arithmetic, not scanning).
UnmarshalTextErr(num) == ~num.ok
UnmarshalText(num) == num.val

\* applyUpdate, lines 71-80: the update is rejected before the lock is taken.
ParseFails(upd) == Float64Err(upd.Volume) \/ UnmarshalTextErr(upd.Price)

\* applyUpdate, line 82.
KeyOf_AllDigits(upd) == stringFixed(UnmarshalText(upd.Price), quotes.scale)

KeyOf(upd) == stringFixed(UnmarshalText(upd.Price), pricePrecision)

\* applyUpdate, lines 88-96: the level stored for a non-zero volume.
StoredLevel(upd) ==
    [Price |-> UnmarshalText(upd.Price), Volume |-> UnmarshalText(upd.Price)]

\* applyUpdate, lines 85-97: the table after the update.
Remove(mm, key) == [k \in DOMAIN mm \ {key} |-> mm[k]]

applyUpdateMap_NoDelete(mm, upd) ==
    IF Float64(upd.Volume) = 0
    THEN mm
    ELSE (KeyOf(upd) :> StoredLevel(upd)) @@ mm

applyUpdateMap_Accumulate(mm, upd) ==
    IF Float64(upd.Volume) = 0
    THEN Remove(mm, KeyOf(upd))
    ELSE IF KeyOf(upd) \in DOMAIN mm
    THEN (KeyOf(upd) :> [Price |-> StoredLevel(upd).Price,
                         Volume |-> mm[KeyOf(upd)].Volume + StoredLevel(upd).Volume]) @@ mm
    ELSE (KeyOf(upd) :> StoredLevel(upd)) @@ mm

applyUpdateMap(mm, upd) ==
    IF Float64(upd.Volume) = 0
    THEN Remove(mm, KeyOf(upd))
    ELSE (KeyOf(upd) :> StoredLevel(upd)) @@ mm

\* byPrice.Less, line 22.
byPriceLess_Reversed(a, b) == a.Price > b.Price

byPriceLess(a, b) == a.Price < b.Price

\* sort.Sort / sort.Reverse, lines 32-36: a before b is forbidden when b is less.
Before(a, b, asc) == IF asc THEN byPriceLess(a, b) ELSE byPriceLess(b, a)

\* newOrderBookLevels: every order sort.Sort may leave the values of the map in.
RECURSIVE SortedKeys(_, _, _)
SortedKeys(mm, keys, asc) ==
    IF keys = {}
    THEN {<<>>}
    ELSE UNION {{<<k>> \o t : t \in SortedKeys(mm, keys \ {k}, asc)} :
                k \in {x \in keys : \A y \in keys : ~Before(mm[y], mm[x], asc)}}

newOrderBookLevels(mm, asc) ==
    {[i \in 1..Len(ks) |-> mm[ks[i]]] : ks \in SortedKeys(mm, DOMAIN mm, asc)}

\* applyUpdates, line 111: levels[o.depth:]
Evicted_OffByOne(levels, d) == SubSeq(levels, d + 2, Len(levels))

Evicted_None(levels, d) == <<>>

Evicted(levels, d) == SubSeq(levels, d + 1, Len(levels))

\* applyUpdates, line 114: levels[:o.depth]
Retained_All(levels, d) == levels

Retained(levels, d) == SubSeq(levels, 1, d)

\* applyUpdates, lines 111-113: the table after the evictions.
RECURSIVE DeleteAll(_, _)
DeleteAll(mm, levels) ==
    IF levels = <<>>
    THEN mm
    ELSE DeleteAll(Remove(mm, stringFixed(Head(levels).Price, pricePrecision)),
                   Tail(levels))

\* Get, lines 125-130.
Get_FromSorted(price) ==
    LET key == stringFixed(price, pricePrecision)
        at == {i \in 1..Len(sorted) : stringFixed(sorted[i].Price, pricePrecision) = key}
    IN  IF at # {}
        THEN [Volume |-> sorted[CHOOSE i \in at : TRUE].Volume, ok |-> TRUE]
        ELSE [Volume |-> 0, ok |-> FALSE]

Get(price) ==
    LET key == stringFixed(price, pricePrecision)
    IN  IF key \in DOMAIN m
        THEN [Volume |-> m[key].Volume, ok |-> TRUE]
        ELSE [Volume |-> 0, ok |-> FALSE]

\* Best, lines 151-154.
Best_Last ==
    IF Len(sorted) = 0
    THEN [Price |-> 0, Volume |-> 0]
    ELSE [Price |-> sorted[Len(sorted)].Price, Volume |-> sorted[Len(sorted)].Volume]

Best ==
    IF Len(sorted) = 0
    THEN [Price |-> 0, Volume |-> 0]
    ELSE [Price |-> sorted[1].Price, Volume |-> sorted[1].Volume]

\* Range, lines 137-143, from the i-th entry on.  handler[i] says whether the
\* handler returns an error for the i-th entry; visited are the entries it was
\* called with so far.
RECURSIVE RangeFrom_KeepsGoing(_, _, _)
RangeFrom_KeepsGoing(i, handler, visited) ==
    IF i > Len(sorted)
    THEN [visited |-> visited, err |-> \E n \in 1..Len(sorted) : handler[n]]
    ELSE RangeFrom_KeepsGoing(i + 1, handler,
            Append(visited, [Price |-> sorted[i].Price, Volume |-> sorted[i].Volume]))

RECURSIVE RangeFrom(_, _, _)
RangeFrom(i, handler, visited) ==
    IF i > Len(sorted)
    THEN [visited |-> visited, err |-> FALSE]
    ELSE LET seen == Append(visited, [Price |-> sorted[i].Price, Volume |-> sorted[i].Volume])
         IN  IF handler[i]
             THEN [visited |-> seen, err |-> TRUE]
             ELSE RangeFrom(i + 1, handler, seen)

Range(handler) == RangeFrom(1, handler, <<>>)

\* The characters of a formatted number: its digits, most significant first,
\* and the same padded with zeros to exactly k digits.
DigitChar(d) == <<"0", "1", "2", "3", "4", "5", "6", "7", "8", "9">>[d + 1]

RECURSIVE Digits(_)
Digits(n) ==
    IF n < 10 THEN <<DigitChar(n)>> ELSE Digits(n \div 10) \o <<DigitChar(n % 10)>>

RECURSIVE PadDigits(_, _)
PadDigits(n, k) ==
    IF k = 0 THEN <<>> ELSE PadDigits(n \div 10, k - 1) \o <<DigitChar(n % 10)>>

\* The characters of the string stringFixed returns: the integer part, and
\* when precision > 0 a point and exactly `precision` fractional digits.
stringFixedText(big, precision) ==
    LET n == stringFixed(big, precision)
    IN  Digits(n \div Pow10(precision)) \o
            (IF precision > 0
             THEN <<".">> \o PadDigits(n % Pow10(precision), precision)
             ELSE <<>>)

\* strings.Replace(s, ".", "", 1), lines 164 and 169.
RECURSIVE ReplaceDot(_)
ReplaceDot(s) ==
    IF s = <<>> THEN <<>>
    ELSE IF Head(s) = "." THEN Tail(s)
    ELSE <<Head(s)>> \o ReplaceDot(Tail(s))

\* strings.TrimLeft(s, "0"), lines 165 and 170.
RECURSIVE TrimLeft0(_)
TrimLeft0(s) ==
    IF s # <<>> /\ Head(s) = "0" THEN TrimLeft0(Tail(s)) ELSE s

\* checksum, lines 163-165 and 168-170: what one field writes to the buffer.
checksumField_NoTrim(big, precision) == ReplaceDot(stringFixedText(big, precision))

checksumField(big, precision) == TrimLeft0(ReplaceDot(stringFixedText(big, precision)))

\* checksum, lines 162-172: what one level writes to the buffer.
checksumLevel_PricePrecisionTwice(level) ==
    checksumField(level.Price, pricePrecision) \o
        checksumField(level.Volume, pricePrecision)

checksumLevel(level) ==
    checksumField(level.Price, pricePrecision) \o
        checksumField(level.Volume, volumePrecision)

\* checksum, lines 161-173, over a view.
RECURSIVE checksumOf(_)
checksumOf(view) ==
    IF view = <<>> THEN <<>> ELSE checksumLevel(Head(view)) \o checksumOf(Tail(view))

checksum == checksumOf(sorted)

\* ---------------------------------------------------------------- state machine

\* New (package rest): a Kraken whose secret is, or is not, valid base64, its
\* client not yet given, no call made.
NoResponse ==
    [StatusCode |-> 0, Body |-> [present |-> FALSE, readable |-> FALSE, json |-> FALSE, errors |-> 0]]

New(secretOk) ==
    [pc |-> "idle", secretOk |-> secretOk,
     client |-> [Error |-> FALSE, Response |-> NoResponse],
     isPrivate |-> FALSE, httpMethod |-> "GET",
     nonce |-> FALSE, req |-> [made |-> FALSE, apiKey |-> FALSE, apiSign |-> FALSE],
     sent |-> FALSE, parsed |-> FALSE, bodyRead |-> FALSE, closed |-> FALSE,
     perr |-> "none", err |-> "none", ret |-> "none"]

\* newOrderBookSide: an empty book, the lock free, nobody calling.
NewSide ==
    /\ m = <<>>
    /\ sorted = <<>>
    /\ depth \in 1..MaxDepth
    /\ isAsk \in BOOLEAN
    /\ mx = [w |-> NoOne, r |-> {}]
    /\ pc = [p \in AllWriters \cup AllReaders |-> "idle"]
    /\ updates = [w \in AllWriters |-> <<>>]
    /\ pre = [w \in AllWriters |-> [m |-> <<>>, sorted |-> <<>>]]
    /\ result = [w \in AllWriters |-> "none"]
    /\ arg = [w \in AllWriters |-> [on |-> FALSE, ups |-> <<>>]]

\* A side whose prices keep one digit less than the feed's texts carry.
Init ==
    /\ NewSide
    /\ api = New(TRUE)
    /\ pricePrecision = Scale - 1
    /\ volumePrecision = Scale
    /\ quotes = [scale |-> Scale, prices |-> Prices, volumes |-> Volumes]

\* applyUpdates, line 103: the element the loop reads next, and whether the
\* slice is exhausted.  A slice passed for the first time is drawn element by
\* element as the loop reads it; a slice passed again is read as it was.
NextItems(w) ==
    IF arg[w].on
    THEN {arg[w].ups[i] : i \in {Len(updates[w]) + 1} \cap DOMAIN arg[w].ups}
    ELSE Items

LoopMayEnd(w) == arg[w].on => Len(updates[w]) = Len(arg[w].ups)

\* sync.RWMutex
CanLock == mx.w = NoOne /\ mx.r = {}
CanRLock == mx.w = NoOne

\* A caller enters applyUpdates (line 102).
Call(w) ==
    /\ pc[w] = "idle"
    /\ pc' = [pc EXCEPT ![w] = "loop"]
    /\ updates' = [updates EXCEPT ![w] = <<>>]
    /\ pre' = [pre EXCEPT ![w] = [m |-> m, sorted |-> sorted]]
    /\ result' = [result EXCEPT ![w] = "running"]
    /\ arg' = [arg EXCEPT ![w] = [on |-> FALSE, ups |-> <<>>]]
    /\ UNCHANGED <<m, sorted, mx, config, api>>

\* A caller enters applyUpdates (line 102) with the slice of its last call,
\* which returned nil.
CallAgain(w) ==
    /\ pc[w] = "idle"
    /\ result[w] = "ok"
    /\ pc' = [pc EXCEPT ![w] = "loop"]
    /\ updates' = [updates EXCEPT ![w] = <<>>]
    /\ pre' = [pre EXCEPT ![w] = [m |-> m, sorted |-> sorted]]
    /\ result' = [result EXCEPT ![w] = "running"]
    /\ arg' = [arg EXCEPT ![w] = [on |-> TRUE, ups |-> updates[w]]]
    /\ UNCHANGED <<m, sorted, mx, config, api>>

\* applyUpdate, lines 71-80, on the next element: it does not parse, and
\* applyUpdates returns the error (lines 104-106).
UpdateFail_Rollback(w) ==
    /\ pc[w] = "loop"
    /\ Len(updates[w]) < MaxBatch
    /\ \E upd \in NextItems(w) :
        /\ ParseFails(upd)
        /\ updates' = [updates EXCEPT ![w] = Append(@, upd)]
    /\ pc' = [pc EXCEPT ![w] = "idle"]
    /\ result' = [result EXCEPT ![w] = "err"]
    /\ m' = pre[w].m
    /\ UNCHANGED <<sorted, mx, pre, arg, config, api>>

UpdateFail(w) ==
    /\ pc[w] = "loop"
    /\ Len(updates[w]) < MaxBatch
    /\ \E upd \in NextItems(w) :
        /\ ParseFails(upd)
        /\ updates' = [updates EXCEPT ![w] = Append(@, upd)]
    /\ pc' = [pc EXCEPT ![w] = "idle"]
    /\ result' = [result EXCEPT ![w] = "err"]
    /\ UNCHANGED <<m, sorted, mx, pre, arg, config, api>>

\* applyUpdate, lines 71-84, on the next element: it parses, the lock is taken.
UpdateLock(w) ==
    /\ pc[w] = "loop"
    /\ Len(updates[w]) < MaxBatch
    /\ CanLock
    /\ \E upd \in NextItems(w) :
        /\ ~ParseFails(upd)
        /\ updates' = [updates EXCEPT ![w] = Append(@, upd)]
    /\ mx' = [mx EXCEPT !.w = w]
    /\ pc' = [pc EXCEPT ![w] = "update"]
    /\ UNCHANGED <<m, sorted, pre, result, arg, config, api>>

\* applyUpdate, lines 85-99.  The second UnmarshalText (line 89) reads the text
\* line 77 has parsed; were it to fail, line 91 returns with the lock held.
UpdateApply_AbsentIsError(w) ==
    /\ pc[w] = "update"
    /\ LET upd == updates[w][Len(updates[w])]
       IN  IF \/ Float64(upd.Volume) # 0 /\ UnmarshalTextErr(upd.Price)
              \/ Float64(upd.Volume) = 0 /\ KeyOf(upd) \notin DOMAIN m
           THEN /\ pc' = [pc EXCEPT ![w] = "idle"]
                /\ result' = [result EXCEPT ![w] = "err"]
                /\ UNCHANGED <<m, mx>>
           ELSE /\ m' = applyUpdateMap(m, upd)
                /\ mx' = [mx EXCEPT !.w = NoOne]
                /\ pc' = [pc EXCEPT ![w] = "loop"]
                /\ UNCHANGED result
    /\ UNCHANGED <<sorted, updates, pre, arg, config, api>>

UpdateApply_Resorts(w) ==
    /\ pc[w] = "update"
    /\ LET upd == updates[w][Len(updates[w])]
       IN  IF Float64(upd.Volume) # 0 /\ UnmarshalTextErr(upd.Price)
           THEN /\ pc' = [pc EXCEPT ![w] = "idle"]
                /\ result' = [result EXCEPT ![w] = "err"]
                /\ UNCHANGED <<m, sorted, mx>>
           ELSE /\ \E levels \in newOrderBookLevels(applyUpdateMap(m, upd), isAsk) :
                    IF Len(levels) <= depth
                    THEN m' = applyUpdateMap(m, upd) /\ sorted' = levels
                    ELSE /\ m' = DeleteAll(applyUpdateMap(m, upd), Evicted(levels, depth))
                         /\ sorted' = Retained(levels, depth)
                /\ mx' = [mx EXCEPT !.w = NoOne]
                /\ pc' = [pc EXCEPT ![w] = "loop"]
                /\ UNCHANGED result
    /\ UNCHANGED <<updates, pre, arg, config, api>>

UpdateApply(w) ==
    /\ pc[w] = "update"
    /\ LET upd == updates[w][Len(updates[w])]
       IN  IF Float64(upd.Volume) # 0 /\ UnmarshalTextErr(upd.Price)
           THEN /\ pc' = [pc EXCEPT ![w] = "idle"]
                /\ result' = [result EXCEPT ![w] = "err"]
                /\ UNCHANGED <<m, mx>>
           ELSE /\ m' = applyUpdateMap(m, upd)
                /\ mx' = [mx EXCEPT !.w = NoOne]
                /\ pc' = [pc EXCEPT ![w] = "loop"]
                /\ UNCHANGED result
    /\ UNCHANGED <<sorted, updates, pre, arg, config, api>>

\* applyUpdates, line 109: the loop is over, the lock is taken.
ResortLock(w) ==
    /\ pc[w] = "loop"
    /\ LoopMayEnd(w)
    /\ CanLock
    /\ mx' = [mx EXCEPT !.w = w]
    /\ pc' = [pc EXCEPT ![w] = "resort"]
    /\ UNCHANGED <<m, sorted, updates, pre, result, arg, config, api>>

\* applyUpdates, lines 110-117.  levels[o.depth:] panics when the table holds
\* fewer than depth levels; nothing is deferred, so the lock stays held.
Resort(w) ==
    /\ pc[w] = "resort"
    /\ \E levels \in newOrderBookLevels(m, isAsk) :
        IF Len(levels) < depth
        THEN /\ pc' = [pc EXCEPT ![w] = "panicked"]
             /\ result' = [result EXCEPT ![w] = "panic"]
             /\ UNCHANGED <<m, sorted, mx>>
        ELSE /\ m' = DeleteAll(m, Evicted(levels, depth))
             /\ sorted' = Retained(levels, depth)
             /\ mx' = [mx EXCEPT !.w = NoOne]
             /\ pc' = [pc EXCEPT ![w] = "idle"]
             /\ result' = [result EXCEPT ![w] = "ok"]
    /\ UNCHANGED <<updates, pre, arg, config, api>>

\* Get, Range, Best, checksum, String: RLock (lines 122, 135, 148, 158, 178).
ReadLock_NoRLock(r) ==
    /\ pc[r] = "idle"
    /\ mx' = [mx EXCEPT !.r = @ \cup {r}]
    /\ pc' = [pc EXCEPT ![r] = "reading"]
    /\ UNCHANGED <<m, sorted, updates, pre, result, arg, config, api>>

ReadLock(r) ==
    /\ pc[r] = "idle"
    /\ CanRLock
    /\ mx' = [mx EXCEPT !.r = @ \cup {r}]
    /\ pc' = [pc EXCEPT ![r] = "reading"]
    /\ UNCHANGED <<m, sorted, updates, pre, result, arg, config, api>>

\* The deferred RUnlock of the read operations (lines 123, 136, 149, 159, 179).
ReadUnlock_Consumes(r) ==
    /\ pc[r] = "reading"
    /\ mx' = [mx EXCEPT !.r = @ \ {r}]
    /\ pc' = [pc EXCEPT ![r] = "idle"]
    /\ sorted' = IF sorted = <<>> THEN sorted ELSE Tail(sorted)
    /\ UNCHANGED <<m, updates, pre, result, arg, config, api>>

ReadUnlock(r) ==
    /\ pc[r] = "reading"
    /\ mx' = [mx EXCEPT !.r = @ \ {r}]
    /\ pc' = [pc EXCEPT ![r] = "idle"]
    /\ UNCHANGED <<m, sorted, updates, pre, result, arg, config, api>>

Next ==
    \/ \E w \in Writers : Call(w)
    \/ \E w \in Writers : UpdateFail(w)
    \/ \E w \in Writers : UpdateLock(w)
    \/ \E w \in Writers : UpdateApply(w)
    \/ \E w \in Writers : ResortLock(w)
    \/ \E w \in Writers : Resort(w)
    \/ \E r \in Readers : ReadLock(r)
    \/ \E r \in Readers : ReadUnlock(r)

Spec == Init /\ [][Next]_vars

\* The same side fed fewer volumes, whose caller may repeat a batch.
InitReplay ==
    /\ NewSide
    /\ api = New(TRUE)
    /\ pricePrecision = Scale - 1
    /\ volumePrecision = Scale
    /\ quotes = [scale |-> Scale, prices |-> Prices, volumes |-> {0, 5 * Pow10(Scale)}]

NextReplay ==
    \/ Next
    \/ \E w \in Writers : CallAgain(w)

SpecReplay == InitReplay /\ [][NextReplay]_vars

\* The same side fed a zero price and two prices that differ only in the
\* digit the side does not keep.
InitKeys ==
    /\ NewSide
    /\ api = New(TRUE)
    /\ pricePrecision = Scale - 1
    /\ volumePrecision = Scale
    /\ quotes = [scale |-> Scale,
                 prices |-> {0, Pow10(Scale), Pow10(Scale) + 4},
                 volumes |-> {0, 5 * Pow10(Scale)}]

SpecKeys == InitKeys /\ [][Next]_vars

\* A side keeping five fractional digits of its prices and three of its
\* volumes, fed the prices 0.00500, 0.12345 and 1.00000.
InitChecksum ==
    /\ NewSide
    /\ api = New(TRUE)
    /\ pricePrecision = 5
    /\ volumePrecision = 3
    /\ quotes = [scale |-> 5, prices |-> {500, 12345, 100000}, volumes |-> {0, 5000}]

SpecChecksum == InitChecksum /\ [][Next]_vars

\* Two callers of applyUpdates on one side of asks of depth 1, each passing
\* one batch.
CallOnce(w) == result[w] = "none" /\ Call(w)

Init2W ==
    /\ NewSide
    /\ api = New(TRUE)
    /\ isAsk
    /\ depth = 1
    /\ pricePrecision = Scale - 1
    /\ volumePrecision = Scale
    /\ quotes = [scale |-> Scale, prices |-> Prices, volumes |-> {0, 5 * Pow10(Scale)}]

Next2W ==
    \/ \E w \in AllWriters : CallOnce(w)
    \/ \E w \in AllWriters : UpdateFail(w)
    \/ \E w \in AllWriters : UpdateLock(w)
    \/ \E w \in AllWriters : UpdateApply(w)
    \/ \E w \in AllWriters : ResortLock(w)
    \/ \E w \in AllWriters : Resort(w)

Spec2W == Init2W /\ [][Next2W]_vars

\* Two callers of applyUpdates and two callers of the read operations on one
\* side of asks of depth 1, fed two prices.
InitRW ==
    /\ NewSide
    /\ api = New(TRUE)
    /\ isAsk
    /\ depth = 1
    /\ pricePrecision = Scale - 1
    /\ volumePrecision = Scale
    /\ quotes = [scale |-> Scale,
                 prices |-> {Pow10(Scale), 2 * Pow10(Scale)},
                 volumes |-> {5 * Pow10(Scale)}]

NextRW ==
    \/ Next2W
    \/ \E r \in AllReaders : ReadLock(r)
    \/ \E r \in AllReaders : ReadUnlock(r)

SpecRW == InitRW /\ [][NextRW]_vars

\* ---------------------------------------------------------------- package rest

book == <<m, sorted, mx, pc, updates, pre, result, arg, config>>

\* http.Response as parseResponse reads it: the status code, and the body:
\* whether there is one, whether io.ReadAll reads it, whether json.Unmarshal
\* decodes it, and the length of the error list it decodes to.
Bodies ==
    {[present |-> FALSE, readable |-> FALSE, json |-> FALSE, errors |-> 0],
     [present |-> TRUE, readable |-> FALSE, json |-> FALSE, errors |-> 0],
     [present |-> TRUE, readable |-> TRUE, json |-> FALSE, errors |-> 0]}
        \cup {[present |-> TRUE, readable |-> TRUE, json |-> TRUE, errors |-> n] :
                n \in 0..MaxErrors}

Responses == [StatusCode : {0, 200, 500}, Body : Bodies]

\* clientInterface, as the tests' httpMock implements it.
Clients == [Error : BOOLEAN, Response : Responses]

\* parseResponse, lines 98-127: the error it returns ("nil" for none) and
\* whether it has read the body.
parseResponse_IgnoresErrorList(response) ==
    IF response.StatusCode # 200
    THEN [err |-> "invalid status code", read |-> FALSE]
    ELSE IF ~response.Body.present
    THEN [err |-> "can not read response body", read |-> FALSE]
    ELSE IF ~response.Body.readable
    THEN [err |-> "can not read response body", read |-> TRUE]
    ELSE IF ~response.Body.json
    THEN [err |-> "json marshalling", read |-> TRUE]
    ELSE [err |-> "nil", read |-> TRUE]

parseResponse(response) ==
    IF response.StatusCode # 200
    THEN [err |-> "invalid status code", read |-> FALSE]
    ELSE IF ~response.Body.present
    THEN [err |-> "can not read response body", read |-> FALSE]
    ELSE IF ~response.Body.readable
    THEN [err |-> "can not read response body", read |-> TRUE]
    ELSE IF ~response.Body.json
    THEN [err |-> "json marshalling", read |-> TRUE]
    ELSE IF response.Body.errors > 0
    THEN [err |-> "kraken return errors", read |-> TRUE]
    ELSE [err |-> "nil", read |-> TRUE]

\* An API method calls request (line 129) through a client.
ApiCall ==
    /\ api.pc = "idle"
    /\ \E client \in Clients, isPrivate \in BOOLEAN, httpMethod \in {"GET", "POST", "BAD METHOD"} :
        api' = [New(api.secretOk) EXCEPT !.pc = "prepare", !.client = client,
                                         !.isPrivate = isPrivate, !.httpMethod = httpMethod]
    /\ UNCHANGED book

\* request, lines 132-135, and prepareRequest, lines 65-96: the nonce is set
\* for a private request, http.NewRequestWithContext refuses a method that is
\* no HTTP method, a private request gets its key and its signature, which
\* getSign (lines 45-63) cannot compute from a secret that is not base64.
ApiPrepare_IgnoresSignError ==
    /\ api.pc = "prepare"
    /\ IF api.httpMethod = "BAD METHOD"
       THEN api' = [api EXCEPT !.pc = "returned", !.err = "error during request creation",
                               !.nonce = api.isPrivate]
       ELSE api' = [api EXCEPT !.pc = "do", !.nonce = api.isPrivate,
                               !.req = [made |-> TRUE, apiKey |-> api.isPrivate,
                                        apiSign |-> api.isPrivate /\ api.secretOk]]
    /\ UNCHANGED book

ApiPrepare ==
    /\ api.pc = "prepare"
    /\ IF api.httpMethod = "BAD METHOD"
       THEN api' = [api EXCEPT !.pc = "returned", !.err = "error during request creation",
                               !.nonce = api.isPrivate]
       ELSE IF api.isPrivate /\ ~api.secretOk
       THEN api' = [api EXCEPT !.pc = "returned", !.err = "invalid secret key",
                               !.nonce = TRUE]
       ELSE api' = [api EXCEPT !.pc = "do", !.nonce = api.isPrivate,
                               !.req = [made |-> TRUE, apiKey |-> api.isPrivate,
                                        apiSign |-> api.isPrivate]]
    /\ UNCHANGED book

\* request, lines 136-139: client.Do.
ApiDo_IgnoresError ==
    /\ api.pc = "do"
    /\ api' = [api EXCEPT !.pc = "parse", !.sent = TRUE]
    /\ UNCHANGED book

ApiDo ==
    /\ api.pc = "do"
    /\ IF api.client.Error
       THEN api' = [api EXCEPT !.pc = "returned", !.sent = TRUE,
                               !.err = "error during request execution"]
       ELSE api' = [api EXCEPT !.pc = "parse", !.sent = TRUE]
    /\ UNCHANGED book

\* request, line 146: parseResponse.
ApiParse ==
    /\ api.pc = "parse"
    /\ LET res == parseResponse(api.client.Response)
       IN  api' = [api EXCEPT !.pc = "close", !.parsed = TRUE,
                              !.perr = res.err, !.bodyRead = res.read]
    /\ UNCHANGED book

\* request, lines 140-145: the deferred Body.Close, called with the Body the
\* response had at line 140; on a nil Body the call panics.
ApiClose ==
    /\ api.pc = "close"
    /\ IF api.client.Response.Body.present
       THEN api' = [api EXCEPT !.pc = "returned", !.closed = TRUE, !.err = api.perr]
       ELSE api' = [api EXCEPT !.pc = "panicked"]
    /\ UNCHANGED book

\* The API method returns what request decoded, or its zero result and the
\* error (TestKraken_Time, TestKraken_GetOrderBook).
ApiReturn ==
    /\ api.pc = "returned"
    /\ api' = [api EXCEPT !.pc = "idle",
                           !.ret = IF api.err = "nil" THEN "decoded" ELSE "zero"]
    /\ UNCHANGED book

InitRest ==
    /\ NewSide
    /\ depth = 1
    /\ isAsk
    /\ pricePrecision = Scale - 1
    /\ volumePrecision = Scale
    /\ quotes = [scale |-> Scale, prices |-> Prices, volumes |-> Volumes]
    /\ \E secretOk \in BOOLEAN : api = New(secretOk)

NextRest ==
    \/ ApiCall
    \/ ApiPrepare
    \/ ApiDo
    \/ ApiParse
    \/ ApiClose
    \/ ApiReturn

SpecRest == InitRest /\ [][NextRest]_vars

\* ---------------------------------------------------------------- claims

\* applyUpdates has returned nil and its caller has not called again.
Completed(w) == pc[w] = "idle" /\ result[w] = "ok"

\* The table a sequence of updates leaves, each applied as applyUpdate does.
RECURSIVE ApplyAll(_, _)
ApplyAll(mm, ups) ==
    IF ups = <<>> THEN mm ELSE ApplyAll(applyUpdateMap(mm, Head(ups)), Tail(ups))

\* The table as it stood when w's batch had applied its updates.
Mid(w) == ApplyAll(pre[w].m, updates[w])

\* The table as it stood before the i-th update of w's batch.
Before_i(w, i) == ApplyAll(pre[w].m, SubSeq(updates[w], 1, i - 1))

\* No update after the i-th of w's batch addresses the same key.
IsLastFor(w, i) ==
    \A j \in (i + 1)..Len(updates[w]) : KeyOf(updates[w][j]) # KeyOf(updates[w][i])

Entries(mm) == {mm[k] : k \in DOMAIN mm}
Shown(view) == {view[i] : i \in 1..Len(view)}
KeysShown(view) == {stringFixed(view[i].Price, pricePrecision) : i \in 1..Len(view)}
Better(a, b) == IF isAsk THEN a.Price < b.Price ELSE a.Price > b.Price
Smaller(a, b) == IF a < b THEN a ELSE b

\* view is exactly the depth best entries of the table mid, and after holds
\* exactly the entries of view, each as mid held it.
ExactlyBest(mid, after, view) ==
    /\ Len(view) = Smaller(depth, Cardinality(DOMAIN mid))
    /\ Cardinality(Shown(view)) = Len(view)
    /\ Shown(view) \subseteq Entries(mid)
    /\ \A e \in Entries(mid) \ Shown(view) : \A s \in Shown(view) : Better(s, e)
    /\ DOMAIN after = KeysShown(view)
    /\ \A k \in DOMAIN after : k \in DOMAIN mid /\ after[k] = mid[k] /\ mid[k] \in Shown(view)

\* C1: applyUpdates does not fail when, after its updates, the table holds
\* fewer than depth levels (a first batch on an empty book, an empty batch, a
\* batch that deletes a level of a book holding exactly depth levels).
C1_CompletesBelowDepth ==
    \A w \in Writers : pc[w] = "panicked" => Cardinality(DOMAIN m) >= depth

\* C2: after a completed batch whose last update for a price p carries a
\* non-zero volume v, with p among the depth best, Get(p) returns (v, found)
\* and the sortedView entry for p carries v.
C2_StoredVolumeIsUpdateVolume ==
    \A w \in Writers : Completed(w) =>
        \A i \in 1..Len(updates[w]) :
            LET upd == updates[w][i]
                p == UnmarshalText(upd.Price)
                v == UnmarshalText(upd.Volume)
            IN  (IsLastFor(w, i) /\ v # 0 /\ KeyOf(upd) \in DOMAIN m) =>
                    /\ Get(p) = [Volume |-> v, ok |-> TRUE]
                    /\ \E j \in 1..Len(sorted) :
                        /\ stringFixed(sorted[j].Price, pricePrecision) = KeyOf(upd)
                        /\ sorted[j].Volume = v

\* C3: after each applyUpdates that completes, sortedView holds at most depth
\* entries.
C3_ViewWithinDepth ==
    \A w \in Writers : Completed(w) => Len(sorted) <= depth

C3_Witness ==
    \E w \in Writers :
        /\ Completed(w)
        /\ Cardinality(DOMAIN Mid(w)) > depth
        /\ Len(sorted) = depth

\* C4: after each applyUpdates that completes, sortedView is ordered best
\* first: ascending prices on an ask side, descending on a bid side.
C4_ViewOrdered ==
    \A w \in Writers : Completed(w) =>
        \A i \in 1..(Len(sorted) - 1) :
            IF isAsk
            THEN sorted[i].Price <= sorted[i + 1].Price
            ELSE sorted[i].Price >= sorted[i + 1].Price

C4_Witness ==
    \E w \in Writers :
        /\ Completed(w)
        /\ ~isAsk
        /\ Len(sorted) >= 2
        /\ \E i, j \in 1..Len(updates[w]) :
            /\ i < j
            /\ UnmarshalText(updates[w][i].Price) < UnmarshalText(updates[w][j].Price)
            /\ {KeyOf(updates[w][i]), KeyOf(updates[w][j])} \subseteq KeysShown(sorted)

\* C5: the resort that completes a batch leaves sortedView exactly the depth
\* best entries of the table as the batch's updates left it, and the table
\* exactly the entries of sortedView: what lies beyond depth is removed, what
\* is retained is not.
C5_ViewIsDepthBest ==
    [][\A w \in Writers :
          (pc[w] = "resort" /\ pc'[w] = "idle") => ExactlyBest(m, m', sorted')]_vars

C5_Witness ==
    \E w \in Writers :
        /\ Completed(w)
        /\ \E i, j \in 1..Len(updates[w]) :
            /\ Float64(updates[w][i].Volume) # 0
            /\ IsLastFor(w, i)
            /\ KeyOf(updates[w][i]) \notin DOMAIN m
            /\ KeyOf(updates[w][j]) \in DOMAIN m

\* C6: a read call that runs while a batch is in progress observes the
\* pre-batch state or a post-batch state, never the table updated with
\* sortedView not yet rebuilt.
C6_ReadersSeeWholeBatches ==
    \A r \in Readers : \A w \in Writers :
        (pc[r] = "reading" /\ pc[w] \in {"loop", "update", "resort"}) =>
            \/ (m = pre[w].m /\ sorted = pre[w].sorted)
            \/ ExactlyBest(m, m, sorted)

\* C7: every applyUpdate and applyUpdates call has released the exclusive lock
\* when it has ended, however it ended.
C7_LockReleasedOnEveryPath ==
    \A w \in Writers : pc[w] \in {"idle", "panicked"} => mx.w # w

\* C8: after a completed batch whose last update for a price present in the
\* book carries volume 0, Get on that price returns not-found and the price is
\* absent from sortedView.
C8_ZeroVolumeRemoves ==
    \A w \in Writers : Completed(w) =>
        \A i \in 1..Len(updates[w]) :
            LET upd == updates[w][i]
            IN  (/\ IsLastFor(w, i)
                 /\ Float64(upd.Volume) = 0
                 /\ KeyOf(upd) \in DOMAIN Before_i(w, i)) =>
                    /\ ~Get(UnmarshalText(upd.Price)).ok
                    /\ KeyOf(upd) \notin KeysShown(sorted)

C8_Witness ==
    \E w \in Writers :
        /\ Completed(w)
        /\ \E i \in 1..Len(updates[w]) :
            /\ IsLastFor(w, i)
            /\ Float64(updates[w][i].Volume) = 0
            /\ KeyOf(updates[w][i]) \in DOMAIN pre[w].m
            /\ KeyOf(updates[w][i]) \in KeysShown(pre[w].sorted)
            /\ ~Get(UnmarshalText(updates[w][i].Price)).ok

\* C9: a completed batch that carries one price twice, with two different
\* non-zero volumes, leaves exactly one level at that price, with the volume
\* of the later update.
C9_LaterVolumeWins ==
    \A w \in Writers : Completed(w) =>
        \A i, j \in 1..Len(updates[w]) :
            LET a == updates[w][i]
                b == updates[w][j]
            IN  (/\ i < j
                 /\ IsLastFor(w, j)
                 /\ a.Price = b.Price
                 /\ Float64(a.Volume) # 0
                 /\ Float64(b.Volume) # 0
                 /\ a.Volume # b.Volume
                 /\ KeyOf(b) \in DOMAIN m) =>
                    /\ Cardinality({k \in DOMAIN m :
                                       m[k].Price = UnmarshalText(b.Price)}) = 1
                    /\ Cardinality({n \in 1..Len(sorted) :
                                       sorted[n].Price = UnmarshalText(b.Price)}) = 1
                    /\ m[KeyOf(b)].Volume = UnmarshalText(b.Volume)

\* C10: a batch that leaves more than depth levels has those beyond the depth
\* best removed: Get on an evicted price returns not-found, and with depth 2
\* the ask updates (1.0,5),(2.0,5),(3.0,5) on a new book leave
\* sortedView = [(1.0,5),(2.0,5)].
C10_Eviction ==
    \A w \in Writers : Completed(w) =>
        /\ \A e \in Entries(Mid(w)) \ Shown(sorted) : ~Get(e.Price).ok
        /\ (/\ depth = 2
            /\ isAsk
            /\ pre[w].m = <<>>
            /\ updates[w] = <<[Price |-> Num(1 * Pow10(Scale)), Volume |-> Num(5 * Pow10(Scale))],
                              [Price |-> Num(2 * Pow10(Scale)), Volume |-> Num(5 * Pow10(Scale))],
                              [Price |-> Num(3 * Pow10(Scale)), Volume |-> Num(5 * Pow10(Scale))]>>) =>
                /\ sorted = <<[Price |-> 1 * Pow10(Scale), Volume |-> 5 * Pow10(Scale)],
                              [Price |-> 2 * Pow10(Scale), Volume |-> 5 * Pow10(Scale)]>>
                /\ ~Get(3 * Pow10(Scale)).ok

\* C11: a batch without zero-volume updates that has been applied, applied
\* again, leaves sortedView and the checksum bytes as the first application
\* left them.
C11_Idempotent ==
    \A w \in Writers :
        (/\ Completed(w)
         /\ arg[w].on
         /\ \A i \in 1..Len(updates[w]) : Float64(updates[w][i].Volume) # 0) =>
            /\ sorted = pre[w].sorted
            /\ checksum = checksumOf(pre[w].sorted)

C11_Witness ==
    \E w \in Writers :
        /\ Completed(w)
        /\ arg[w].on
        /\ Len(updates[w]) >= 2
        /\ \A i \in 1..Len(updates[w]) : Float64(updates[w][i].Volume) # 0
        /\ Cardinality(DOMAIN Mid(w)) > depth
        /\ checksum # <<>>

\* C12: when the k-th update of a batch fails, applyUpdates returns the error
\* with the updates before k applied to the table, none after k applied, and
\* sortedView as it was before the batch: no resort, no eviction.
C12_FailFast ==
    \A w \in Writers :
        (pc[w] = "idle" /\ result[w] = "err") =>
            LET k == Len(updates[w])
            IN  /\ k >= 1
                /\ ParseFails(updates[w][k])
                /\ \A i \in 1..(k - 1) : ~ParseFails(updates[w][i])
                /\ m = Before_i(w, k)
                /\ sorted = pre[w].sorted

C12_Witness ==
    \E w \in Writers :
        /\ pc[w] = "idle"
        /\ result[w] = "err"
        /\ Len(updates[w]) >= 2
        /\ m # pre[w].m
        /\ Cardinality(DOMAIN m) > depth
        /\ ~ExactlyBest(m, m, sorted)

\* C13: after a completed batch no level of the table and no entry of
\* sortedView has volume zero, whatever the updates were (a zero price
\* included).
C13_NoZeroVolumeLevel ==
    \A w \in Writers : Completed(w) =>
        /\ \A k \in DOMAIN m : m[k].Volume # 0
        /\ \A i \in 1..Len(sorted) : sorted[i].Volume # 0

\* key spells price rounded to pricePrecision fractional digits.
IsRounded(key, price) ==
    LET d == Pow10(quotes.scale - pricePrecision)
        diff == IF price >= key * d THEN price - key * d ELSE key * d - price
    IN  2 * diff <= d

\* The prices a and b round to one value at pricePrecision fractional digits.
RoundsTogether(a, b) ==
    LET d == Pow10(quotes.scale - pricePrecision)
    IN  \E k \in {a \div d, (a \div d) + 1} : IsRounded(k, a) /\ IsRounded(k, b)

\* C14: the key a level is stored under is its price rounded to
\* pricePrecision fractional digits, Get derives the same key, so Get finds
\* every level within depth under the price it was inserted with, and two
\* updates whose prices round to one value address one entry.
C14_KeyDeterminism ==
    \A w \in Writers : Completed(w) =>
        /\ \A k \in DOMAIN m : IsRounded(k, m[k].Price)
        /\ \A n \in 1..Len(sorted) :
            Get(sorted[n].Price) = [Volume |-> sorted[n].Volume, ok |-> TRUE]
        /\ \A i, j \in 1..Len(updates[w]) :
            LET a == UnmarshalText(updates[w][i].Price)
                b == UnmarshalText(updates[w][j].Price)
            IN  (/\ i < j
                 /\ RoundsTogether(a, b)
                 /\ Float64(updates[w][i].Volume) # 0
                 /\ Float64(updates[w][j].Volume) # 0
                 /\ \A n \in (j + 1)..Len(updates[w]) :
                        ~RoundsTogether(b, UnmarshalText(updates[w][n].Price))) =>
                    /\ Cardinality({k \in DOMAIN m : IsRounded(k, a) \/ IsRounded(k, b)}) <= 1
                    /\ \A k \in DOMAIN m : IsRounded(k, b) => m[k].Price = b

C14_Witness ==
    \E w \in Writers :
        /\ Completed(w)
        /\ \E i, j \in 1..Len(updates[w]) :
            /\ i < j
            /\ IsLastFor(w, j)
            /\ updates[w][i].Price # updates[w][j].Price
            /\ KeyOf(updates[w][i]) = KeyOf(updates[w][j])
            /\ Float64(updates[w][i].Volume) # 0
            /\ Float64(updates[w][j].Volume) # 0
            /\ Get(UnmarshalText(updates[w][i].Price)).ok
            /\ Get(UnmarshalText(updates[w][j].Price)).ok

\* The sides a batch run alone leaves, started on the side st: none when the
\* table holds fewer than depth levels at the resort.
AloneAfter(st, ups) ==
    LET mid == ApplyAll(st.m, ups)
    IN  {[m |-> DeleteAll(mid, Evicted(levels, depth)), sorted |-> Retained(levels, depth)] :
            levels \in {l \in newOrderBookLevels(mid, isAsk) : Len(l) >= depth}}

\* The sides the batches of a and b leave when a's runs wholly before b's.
OneAfterTheOther(a, b) ==
    UNION {AloneAfter(st, updates[b]) :
            st \in AloneAfter([m |-> <<>>, sorted |-> <<>>], updates[a])}

\* C15: when two concurrent applyUpdates calls on one side have both
\* completed, the table and sortedView are those of the two batches applied
\* one after the other in some order.
C15_Serialised ==
    (Completed("w1") /\ Completed("w2")) =>
        [m |-> m, sorted |-> sorted] \in
            OneAfterTheOther("w1", "w2") \cup OneAfterTheOther("w2", "w1")

\* C16: no read operation, at any moment, a batch in progress included, sees
\* a sortedView longer than depth.
C16_ReadNeverLonger ==
    \A r \in Readers : pc[r] = "reading" => Len(sorted) <= depth

C16_Witness ==
    \E r \in Readers, w \in Writers :
        /\ pc[r] = "reading"
        /\ result[w] = "running"
        /\ Len(updates[w]) >= 1
        /\ Cardinality(DOMAIN m) > depth
        /\ Len(sorted) = depth

\* C19: Get returns, for a price whose key the table lacks, volume zero and
\* false, and for a price whose key the table holds, the stored volume and
\* true; the table is looked up, not sortedView.
C19_GetNeverFails ==
    \A r \in Readers : pc[r] = "reading" =>
        \A price \in quotes.prices :
            LET held == {k \in DOMAIN m : IsRounded(k, price)}
            IN  IF held = {}
                THEN Get(price) = [Volume |-> 0, ok |-> FALSE]
                ELSE \A k \in held : Get(price) = [Volume |-> m[k].Volume, ok |-> TRUE]

C19_Witness ==
    \E r \in Readers :
        /\ pc[r] = "reading"
        /\ \E price \in quotes.prices : ~Get(price).ok
        /\ \E price \in quotes.prices :
            /\ Get(price).ok
            /\ \A i \in 1..Len(sorted) : sorted[i].Price # price

\* C20: Best returns the price and volume of the first element of sortedView
\* when it has one, and zero for both when sortedView is empty.
C20_BestIsFirst ==
    \A r \in Readers : pc[r] = "reading" =>
        IF sorted = <<>>
        THEN Best = [Price |-> 0, Volume |-> 0]
        ELSE Best = [Price |-> Head(sorted).Price, Volume |-> Head(sorted).Volume]

C20_Witness ==
    \E r \in Readers :
        /\ pc[r] = "reading"
        /\ Len(sorted) >= 2
        /\ Best.Price = sorted[1].Price
        /\ Best.Price # sorted[Len(sorted)].Price

\* The decimal digits of n, none for zero.
CanonicalDigits(n) == IF n = 0 THEN <<>> ELSE Digits(n)

\* What checksum writes for the price of the i-th entry of sortedView, and
\* that the buffer starts with what it writes for the first.
PriceWritten(i) == checksumField(sorted[i].Price, pricePrecision)

PriceRule ==
    /\ \A i \in 1..Len(sorted) :
        PriceWritten(i) = CanonicalDigits(stringFixed(sorted[i].Price, pricePrecision))
    /\ sorted # <<>> => SubSeq(checksum, 1, Len(PriceWritten(1))) = PriceWritten(1)

\* C17 as stated: the price of a level is written at pricePrecision fixed
\* digits with the point removed and the leading zeros stripped, and the
\* price 0.00500 at precision 5 is written as "5".
C17_PriceWrittenAs5 ==
    \A r \in Readers : pc[r] = "reading" =>
        /\ PriceRule
        /\ \A i \in 1..Len(sorted) :
            (pricePrecision = 5 /\ sorted[i].Price = 5 * Pow10(quotes.scale - 3)) =>
                PriceWritten(i) = <<"5">>

\* C17, amended: the price of a level is written at pricePrecision fixed
\* digits with the point removed and the leading zeros stripped, the trailing
\* zeros kept: the price 0.00500 at precision 5 is written as "500".
C17_PriceWrittenAs500 ==
    \A r \in Readers : pc[r] = "reading" =>
        /\ PriceRule
        /\ \A i \in 1..Len(sorted) :
            (pricePrecision = 5 /\ sorted[i].Price = 5 * Pow10(quotes.scale - 3)) =>
                PriceWritten(i) = <<"5", "0", "0">>

C17_Witness ==
    \E r \in Readers :
        /\ pc[r] = "reading"
        /\ pricePrecision = 5
        /\ \E i \in 1..Len(sorted) : sorted[i].Price = 5 * Pow10(quotes.scale - 3)

\* The digits of the first n entries of sortedView, price then volume.
RECURSIVE DigitsOfFirst(_)
DigitsOfFirst(n) ==
    IF n = 0
    THEN <<>>
    ELSE DigitsOfFirst(n - 1)
            \o CanonicalDigits(stringFixed(sorted[n].Price, pricePrecision))
            \o CanonicalDigits(stringFixed(sorted[n].Volume, volumePrecision))

\* C18: checksum is, for the entries of sortedView best first, the digits of
\* the price at pricePrecision followed by the digits of the volume at
\* volumePrecision, point removed and leading zeros stripped, nothing between
\* fields or entries and nothing for levels outside sortedView.
C18_ChecksumIsDigits ==
    \A r \in Readers : pc[r] = "reading" => checksum = DigitsOfFirst(Len(sorted))

C18_Witness ==
    \E r \in Readers :
        /\ pc[r] = "reading"
        /\ Len(sorted) >= 2
        /\ Cardinality(DOMAIN m) > Len(sorted)
        /\ \E i \in 1..Len(sorted) :
            stringFixed(sorted[i].Volume, volumePrecision) * Pow10(quotes.scale - volumePrecision)
                # sorted[i].Volume
        /\ Len(checksum) > 6

\* The handlers Range may be given, by the entries they fail on.
Handlers == [1..Len(sorted) -> BOOLEAN]

\* C21: Range calls the handler once per entry of sortedView, best first; when
\* the handler returns an error at entry i, Range returns it at once and
\* visits no entry after i; otherwise every entry is visited exactly once and
\* Range returns nil.
C21_RangeShortCircuits ==
    \A r \in Readers : pc[r] = "reading" =>
        \A handler \in Handlers :
            LET res == Range(handler)
                stops == {i \in 1..Len(sorted) : handler[i]}
                last == IF stops = {}
                        THEN Len(sorted)
                        ELSE CHOOSE i \in stops : \A j \in stops : i <= j
            IN  /\ res.err = (stops # {})
                /\ Len(res.visited) = last
                /\ \A n \in 1..last :
                    res.visited[n] = [Price |-> sorted[n].Price, Volume |-> sorted[n].Volume]
                /\ \A a, b \in 1..last : a < b => Better(res.visited[a], res.visited[b])

C21_Witness ==
    \E r \in Readers :
        /\ pc[r] = "reading"
        /\ Len(sorted) >= 2
        /\ Len(Range([i \in 1..Len(sorted) |-> i = 1]).visited) = 1
        /\ Range([i \in 1..Len(sorted) |-> i = 1]).err
        /\ Len(Range([i \in 1..Len(sorted) |-> FALSE]).visited) = Len(sorted)
        /\ ~Range([i \in 1..Len(sorted) |-> FALSE]).err

\* C22: at every moment the table holds at most one level per rounded price,
\* and so does sortedView after every completed batch: repeated updates of a
\* price replace its entry.
C22_OneLevelPerPrice ==
    /\ \A k1, k2 \in DOMAIN m :
        k1 # k2 => ~RoundsTogether(m[k1].Price, m[k2].Price)
    /\ \A w \in Writers : Completed(w) =>
        \A i, j \in 1..Len(sorted) :
            i # j => ~RoundsTogether(sorted[i].Price, sorted[j].Price)

C22_Witness ==
    \E w \in Writers :
        /\ pc[w] = "loop"
        /\ result[w] = "running"
        /\ \E i, j \in 1..Len(updates[w]) :
            LET a == UnmarshalText(updates[w][i].Price)
                b == UnmarshalText(updates[w][j].Price)
            IN  /\ i < j
                /\ a # b
                /\ RoundsTogether(a, b)
                /\ Float64(updates[w][i].Volume) # 0
                /\ Float64(updates[w][j].Volume) # 0
                /\ \A n \in (i + 1)..Len(updates[w]) : Float64(updates[w][n].Volume) # 0
                /\ Cardinality({k \in DOMAIN m : IsRounded(k, a)}) = 1
        /\ Cardinality(DOMAIN m) >= 2

\* The step is one of w's applyUpdate: it reads the next element, or it ends
\* the update that holds the lock.
InApplyUpdate(w) ==
    \/ pc[w] = "loop" /\ Len(updates'[w]) = Len(updates[w]) + 1
    \/ pc[w] = "update" /\ pc'[w] # "update"

\* C24: applyUpdate changes only the table: it leaves sortedView as it was
\* and evicts nothing, so the table may exceed depth until the resort.
C24_UpdateTouchesOnlyTable ==
    [][\A w \in Writers : InApplyUpdate(w) =>
        /\ sorted' = sorted
        /\ config' = config
        /\ LET upd == updates'[w][Len(updates'[w])]
           IN  (pc[w] = "update" /\ pc'[w] = "loop" /\ Float64(upd.Volume) # 0) =>
                   /\ DOMAIN m' = DOMAIN m \cup {KeyOf(upd)}
                   /\ \A k \in DOMAIN m \ {KeyOf(upd)} : m'[k] = m[k]]_vars

C24_Witness ==
    \E w \in Writers :
        /\ pc[w] = "loop"
        /\ result[w] = "running"
        /\ Len(updates[w]) >= 1
        /\ Float64(updates[w][Len(updates[w])].Volume) # 0
        /\ Cardinality(DOMAIN pre[w].m) = depth
        /\ Cardinality(DOMAIN m) > depth
        /\ sorted = pre[w].sorted
        /\ Len(sorted) = depth

\* C25: an applyUpdate that fails leaves the table and sortedView as they
\* were before it, and an applyUpdate ends in no other way than by failing or
\* by applying its update.
C25_FailedUpdateChangesNothing ==
    [][\A w \in Writers : InApplyUpdate(w) =>
        LET upd == updates'[w][Len(updates'[w])]
            key == stringFixed(upd.Price.val, pricePrecision)
        IN  IF ~upd.Price.ok \/ ~upd.Volume.ok
            THEN /\ m' = m
                 /\ sorted' = sorted
                 /\ pc'[w] = "idle"
                 /\ result'[w] = "err"
            ELSE /\ result'[w] = "running"
                 /\ pc[w] = "loop" => pc'[w] = "update" /\ m' = m
                 /\ pc[w] = "update" =>
                        /\ pc'[w] = "loop"
                        /\ IF upd.Volume.val = 0
                           THEN key \notin DOMAIN m'
                           ELSE key \in DOMAIN m' /\ m'[key].Price = upd.Price.val]_vars

C25_Witness ==
    \E w \in Writers :
        /\ pc[w] = "idle"
        /\ result[w] = "err"
        /\ Len(updates[w]) >= 2
        /\ ~updates[w][Len(updates[w])].Volume.ok
        /\ m = Before_i(w, Len(updates[w]))
        /\ m # pre[w].m
        /\ sorted = pre[w].sorted
        /\ sorted # <<>>

\* C26: a zero-volume update of a price the table lacks is no error and
\* leaves the table as it was; applying a zero-volume update a second time
\* changes nothing more.
C26_RemovingAbsentIsNoError ==
    [][\A w \in Writers :
        LET upd == updates[w][Len(updates[w])]
            key == stringFixed(upd.Price.val, pricePrecision)
        IN  (pc[w] = "update" /\ pc'[w] # "update" /\ upd.Volume.val = 0) =>
                /\ pc'[w] = "loop"
                /\ result'[w] = "running"
                /\ key \notin DOMAIN m => m' = m
                /\ key \notin DOMAIN m'
                /\ applyUpdateMap(m', upd) = m']_vars

C26_Witness ==
    \E w \in Writers :
        /\ pc[w] = "loop"
        /\ result[w] = "running"
        /\ LET k == Len(updates[w])
           IN  /\ k >= 2
               /\ updates[w][k] = updates[w][k - 1]
               /\ Float64(updates[w][k].Volume) = 0
               /\ KeyOf(updates[w][k]) \notin DOMAIN Before_i(w, k - 1)
               /\ m = Before_i(w, k - 1)
        /\ m # <<>>

\* C27: Get, Range, Best, checksum and String leave the table, sortedView and
\* the configuration as they were; only applyUpdate and applyUpdates change
\* the table and sortedView, and depth, the precisions and isAsk never change.
C27_ReadsChangeNothing ==
    [][/\ \A r \in Readers : pc'[r] # pc[r] =>
            /\ m' = m
            /\ sorted' = sorted
       /\ (m' # m \/ sorted' # sorted) =>
            \E w \in Writers : pc[w] \in {"update", "resort"} /\ mx.w = w
       /\ depth' = depth
       /\ pricePrecision' = pricePrecision
       /\ volumePrecision' = volumePrecision
       /\ isAsk' = isAsk]_vars

C27_Witness ==
    \E r \in Readers, w \in Writers :
        /\ pc[r] = "reading"
        /\ Completed(w)
        /\ Len(sorted) = depth
        /\ Best.Price # 0
        /\ Get(Best.Price).ok
        /\ checksum # <<>>

\* w holds the lock to change the table or to replace sortedView.
Writing(w) == pc[w] \in {"update", "resort"}

\* C28: no reader is inside its locked section while a writer changes the
\* table or replaces sortedView, at most one writer is inside its locked
\* section at a time, and several readers may be inside together.
C28_ReadersAndWritersExclude ==
    /\ \A r \in AllReaders, w \in AllWriters : ~(pc[r] = "reading" /\ Writing(w))
    /\ \A w1, w2 \in AllWriters : (Writing(w1) /\ Writing(w2)) => w1 = w2

C28_Witness ==
    /\ \A r \in AllReaders : pc[r] = "reading"
    /\ \A w \in AllWriters : pc[w] = "loop" /\ Len(updates[w]) >= 1
    /\ m # <<>>

\* view is exactly the depth best entries of the table mm, and mm holds
\* nothing else.
Agree(mm, view) == ExactlyBest(mm, mm, view)

\* C29: when an applyUpdates completes on a side a failed applyUpdates left
\* with table and sortedView disagreeing, sortedView is again exactly the
\* depth best entries of the table and the table holds nothing else.
C29_SuccessRestores ==
    \A w \in Writers :
        (Completed(w) /\ ~Agree(pre[w].m, pre[w].sorted)) => Agree(m, sorted)

C29_Witness ==
    \E w \in Writers :
        /\ Completed(w)
        /\ \E k \in DOMAIN pre[w].m : k \notin KeysShown(pre[w].sorted)
        /\ \E k \in KeysShown(pre[w].sorted) : k \notin DOMAIN pre[w].m
        /\ Cardinality(DOMAIN Mid(w)) > depth
        /\ Agree(m, sorted)

\* C23: when the client's Do returns an error, request returns an error and
\* parses no response, and the API method that called it returns the error
\* with its zero result.
C23_DoErrorIsReturned ==
    (api.sent /\ api.client.Error) =>
        /\ api.pc \in {"returned", "idle"}
        /\ api.err \notin {"nil", "none"}
        /\ ~api.parsed
        /\ ~api.bodyRead
        /\ api.pc = "idle" => api.ret = "zero"

C23_Witness ==
    /\ api.pc = "idle"
    /\ api.sent
    /\ api.client.Error
    /\ api.client.Response.StatusCode = 200
    /\ api.client.Response.Body.json
    /\ api.client.Response.Body.errors = 0
    /\ api.ret = "zero"

\* C30: parseResponse returns nil only when the status is 200, the body is
\* there, is read and decodes, and the decoded error list is empty; otherwise
\* it returns an error, and it reads no body when the status is not 200.
C30_ParseResponseSucceedsOnlyWhen ==
    api.parsed =>
        LET response == api.client.Response
        IN  /\ api.perr # "none"
            /\ api.perr = "nil" <=>
                    /\ response.StatusCode = 200
                    /\ response.Body.present
                    /\ response.Body.readable
                    /\ response.Body.json
                    /\ response.Body.errors = 0
            /\ response.StatusCode # 200 => ~api.bodyRead

C30_Witness ==
    /\ api.pc = "returned"
    /\ api.parsed
    /\ api.bodyRead
    /\ api.closed
    /\ api.err = "nil"

\* prepareRequest has returned for the call in progress or the last one.
Prepared == api.pc # "prepare" /\ (api.req.made \/ api.err # "none")

\* C31: prepareRequest signs a request exactly when it is private: a private
\* request has a nonce in its data and the API-Key and API-Sign headers, a
\* public one has none of the three; with a secret that is not base64 a
\* private call gets an error and no request.
C31_SignsExactlyPrivate ==
    /\ api.req.made =>
        /\ api.nonce = api.isPrivate
        /\ api.req.apiKey = api.isPrivate
        /\ api.req.apiSign = api.isPrivate
    /\ (Prepared /\ ~api.isPrivate) => ~api.nonce /\ ~api.req.apiKey /\ ~api.req.apiSign
    /\ (Prepared /\ api.isPrivate /\ ~api.secretOk) =>
        /\ ~api.req.made
        /\ ~api.sent
        /\ api.err \notin {"nil", "none"}
    /\ (Prepared /\ api.httpMethod # "BAD METHOD" /\ (api.isPrivate => api.secretOk)) =>
        api.req.made

C31_Witness ==
    /\ api.pc = "returned"
    /\ api.isPrivate
    /\ ~api.secretOk
    /\ api.httpMethod = "POST"
    /\ api.err = "invalid secret key"
    /\ api.nonce
    /\ ~api.req.made

====
